---------------------------- MODULE Spec2Model ----------------------------
(***************************************************************************)
(* nREPL client transport of ultra-nvim (src/src/nrepl.rs): the encoding   *)
(* of an Op as a bencode dict, the read_resp / op read loop over a         *)
(* blocking TcpStream, and the classification of the final response.       *)
(*                                                                         *)
(* Bytes are naturals 0..255, strings are sequences of bytes.  A bencode   *)
(* Object is a record tagged t: "bytes", "int", "list" or "dict"; a dict   *)
(* holds the sequence of its <<key, value>> pairs in wire order.           *)
(***************************************************************************)
EXTENDS Integers, Sequences, FiniteSets, TLC

(***************************************************************************)
(* Bounds of the model.                                                    *)
(***************************************************************************)
\* the server puts at most MaxMsgs messages on the wire
MaxMsgs == 3
\* an Op has at most MaxArgs arguments
MaxArgs == 2
\* a decoded dict handed to the dict-to-map step has at most MaxPairs pairs
MaxPairs == 3

(***************************************************************************)
(* Program constants.                                                      *)
(***************************************************************************)
\* impl ToBencode for Op: const MAX_DEPTH
MAX_DEPTH == 3
\* BufReader::new / BufWriter::new: the default buffer capacity in bytes
BufCapacity == 8192

(***************************************************************************)
(* Byte strings.                                                           *)
(***************************************************************************)
ChD == 100
ChE == 101
ChI == 105
ChL == 108
ChColon == 58
ChMinus == 45
Ch0 == 48

\* "op"
OpKey == <<111, 112>>
\* "status"
StatusKey == <<115, 116, 97, 116, 117, 115>>

Min(a, b) == IF a < b THEN a ELSE b

\* F of the value of x, x evaluated once
Bind(x, F(_)) == CHOOSE r \in {F(y) : y \in {x}} : TRUE

Take(s, n) == SubSeq(s, 1, Min(n, Len(s)))

Drop(s, n) == SubSeq(s, Min(n, Len(s)) + 1, Len(s))

IsDigit(c) == c >= Ch0 /\ c <= Ch0 + 9

\* byte-wise lexicographic order on strings: a < b
RECURSIVE StrLess(_, _)
StrLess(a, b) ==
    IF b = <<>> THEN FALSE
    ELSE IF a = <<>> THEN TRUE
    ELSE IF Head(a) # Head(b) THEN Head(a) < Head(b)
    ELSE StrLess(Tail(a), Tail(b))

\* the decimal digits of a natural, as bytes
RECURSIVE DecBytes(_)
DecBytes(n) ==
    IF n < 10 THEN <<Ch0 + n>>
    ELSE Append(DecBytes(n \div 10), Ch0 + (n % 10))

(***************************************************************************)
(* The bencode codec (crate::bencode and bendy): one value to bytes, and   *)
(* one value read from the front of a byte stream.                         *)
(***************************************************************************)
BBytes(s) == [t |-> "bytes", bytes |-> s]

BInt(n) == [t |-> "int", int |-> n]

BList(items) == [t |-> "list", items |-> items]

BDict(pairs) == [t |-> "dict", pairs |-> pairs]

EncStr(s) == DecBytes(Len(s)) \o <<ChColon>> \o s

EncInt(n) ==
    <<ChI>> \o (IF n < 0 THEN <<ChMinus>> \o DecBytes(-n) ELSE DecBytes(n)) \o <<ChE>>

\* the bytes of a value; t = "raw" stands for bytes a peer writes as they are
RECURSIVE BEncode(_)
RECURSIVE EncItems(_)
RECURSIVE EncPairs(_)
BEncode(o) ==
    CASE o.t = "bytes" -> EncStr(o.bytes)
      [] o.t = "int" -> EncInt(o.int)
      [] o.t = "list" -> <<ChL>> \o EncItems(o.items) \o <<ChE>>
      [] o.t = "dict" -> <<ChD>> \o EncPairs(o.pairs) \o <<ChE>>
      [] o.t = "raw" -> o.raw

EncItems(items) ==
    IF items = <<>> THEN <<>>
    ELSE BEncode(Head(items)) \o EncItems(Tail(items))

EncPairs(pairs) ==
    IF pairs = <<>> THEN <<>>
    ELSE EncStr(Head(pairs)[1]) \o BEncode(Head(pairs)[2]) \o EncPairs(Tail(pairs))

\* Results of the decoder at position i of b: st is "ok" (a value, and the
\* position after it), "more" (b ends inside the value) or "bad".
POk(val, next) == [st |-> "ok", val |-> val, next |-> next]

PMore == [st |-> "more", val |-> <<>>, next |-> 0]

PBad == [st |-> "bad", val |-> <<>>, next |-> 0]

\* the decimal number starting at position i; any: a digit has been read
RECURSIVE ParseDigits(_, _, _, _)
ParseDigits(b, i, acc, any) ==
    IF i > Len(b) THEN PMore
    ELSE IF IsDigit(b[i]) THEN ParseDigits(b, i + 1, acc * 10 + (b[i] - Ch0), TRUE)
    ELSE IF any THEN POk(acc, i)
    ELSE PBad

\* <len>:<bytes>
ParseStr(b, i) ==
    Bind(ParseDigits(b, i, 0, FALSE), LAMBDA n :
        IF n.st # "ok" THEN n
        ELSE IF b[n.next] # ChColon THEN PBad
        ELSE IF n.next + n.val > Len(b) THEN PMore
        ELSE POk(SubSeq(b, n.next + 1, n.next + n.val), n.next + n.val + 1))

\* i<digits>e, the i already read
ParseInt(b, i) ==
    IF i > Len(b) THEN PMore
    ELSE LET neg == b[i] = ChMinus IN
         Bind(ParseDigits(b, IF neg THEN i + 1 ELSE i, 0, FALSE), LAMBDA n :
             IF n.st # "ok" THEN n
             ELSE IF b[n.next] # ChE THEN PBad
             ELSE POk(IF neg THEN -n.val ELSE n.val, n.next + 1))

RECURSIVE ParseAt(_, _)
RECURSIVE ParseItems(_, _, _)
RECURSIVE ParsePairs(_, _, _)
ParseAt(b, i) ==
    IF i > Len(b) THEN PMore
    ELSE IF IsDigit(b[i]) THEN
        Bind(ParseStr(b, i), LAMBDA s :
            IF s.st = "ok" THEN POk(BBytes(s.val), s.next) ELSE s)
    ELSE IF b[i] = ChI THEN
        Bind(ParseInt(b, i + 1), LAMBDA n :
            IF n.st = "ok" THEN POk(BInt(n.val), n.next) ELSE n)
    ELSE IF b[i] = ChL THEN ParseItems(b, i + 1, <<>>)
    ELSE IF b[i] = ChD THEN ParsePairs(b, i + 1, <<>>)
    ELSE PBad

ParseItems(b, i, acc) ==
    IF i > Len(b) THEN PMore
    ELSE IF b[i] = ChE THEN POk(BList(acc), i + 1)
    ELSE Bind(ParseAt(b, i), LAMBDA x :
             IF x.st # "ok" THEN x ELSE ParseItems(b, x.next, Append(acc, x.val)))

ParsePairs(b, i, acc) ==
    IF i > Len(b) THEN PMore
    ELSE IF b[i] = ChE THEN POk(BDict(acc), i + 1)
    ELSE IF ~IsDigit(b[i]) THEN PBad
    ELSE Bind(ParseStr(b, i), LAMBDA k :
             IF k.st # "ok" THEN k
             ELSE Bind(ParseAt(b, k.next), LAMBDA x :
                      IF x.st # "ok" THEN x
                      ELSE ParsePairs(b, x.next, Append(acc, <<k.val, x.val>>))))

\* Decoder::read_object on the bytes the reader has handed over so far
ReadObject(b) == ParseAt(b, 1)

(***************************************************************************)
(* String::from_utf8: the bytes are kept as they are when they are valid   *)
(* UTF-8, and refused otherwise.                                           *)
(***************************************************************************)
IsCont(c) == c >= 128 /\ c <= 191

RECURSIVE IsUtf8(_)
IsUtf8(s) ==
    IF s = <<>> THEN TRUE
    ELSE LET c == s[1]
             n == Len(s)
         IN  IF c <= 127 THEN IsUtf8(Tail(s))
             ELSE IF c >= 194 /\ c <= 223 THEN
                 n >= 2 /\ IsCont(s[2]) /\ IsUtf8(Drop(s, 2))
             ELSE IF c >= 224 /\ c <= 239 THEN
                 /\ n >= 3
                 /\ IsCont(s[2])
                 /\ IsCont(s[3])
                 /\ (c = 224 => s[2] >= 160)
                 /\ (c = 237 => s[2] <= 159)
                 /\ IsUtf8(Drop(s, 3))
             ELSE IF c >= 240 /\ c <= 244 THEN
                 /\ n >= 4
                 /\ IsCont(s[2])
                 /\ IsCont(s[3])
                 /\ IsCont(s[4])
                 /\ (c = 240 => s[2] >= 144)
                 /\ (c = 244 => s[2] <= 143)
                 /\ IsUtf8(Drop(s, 4))
             ELSE FALSE

(***************************************************************************)
(* enum Error, and the results of read_resp and op.                        *)
(***************************************************************************)
\* kind is the variant; why, key and obj are what it carries: the cause of a
\* codec or I/O error, the key (or the bytes that are no string), the object
Error(kind, why, key, obj) == [kind |-> kind, why |-> why, key |-> key, obj |-> obj]

NoError == Error("none", "none", <<>>, BBytes(<<>>))

BencodeEncodeError(why) == Error("BencodeEncodeError", why, <<>>, BBytes(<<>>))

BencodeDecodeError(why) == Error("BencodeDecodeError", why, <<>>, BBytes(<<>>))

UnexpectedBencodeObject(o) == Error("UnexpectedBencodeObject", "none", <<>>, o)

BadBencodeString(bytes) == Error("BadBencodeString", "none", bytes, BBytes(<<>>))

DuplicatedKeyError(k) == Error("DuplicatedKeyError", "none", k, BBytes(<<>>))

ROk(resp) == [tag |-> "Ok", resp |-> resp, err |-> NoError]

RErr(e) == [tag |-> "Err", resp |-> <<>>, err |-> e]

RPanic == [tag |-> "Panic", resp |-> <<>>, err |-> NoError]

\* read_resp not called yet
RUnset == [tag |-> "Unset", resp |-> <<>>, err |-> NoError]

(***************************************************************************)
(* Resp = HashMap<String, bencode::Object>: a function from keys to values *)
(***************************************************************************)
EmptyMap == <<>>

contains_key(m, k) == k \in DOMAIN m

insert(m, k, v) == [x \in DOMAIN m \cup {k} |-> IF x = k THEN v ELSE m[x]]

\* a faulty variant of is_final_resp: a status with an empty value does not count
is_final_resp_nonempty(resp) ==
    contains_key(resp, StatusKey) /\ resp[StatusKey] # BBytes(<<>>)

is_final_resp(resp) == contains_key(resp, StatusKey)

\* a faulty variant of the loop of read_resp: a repeated key overwrites
RECURSIVE RespLoopOverwrite(_, _)
RespLoopOverwrite(pairs, resp) ==
    IF pairs = <<>> THEN ROk(resp)
    ELSE LET k == Head(pairs)[1]
             v == Head(pairs)[2]
         IN  IF ~IsUtf8(k) THEN RErr(BadBencodeString(k))
             ELSE Bind(insert(resp, k, v), LAMBDA m : RespLoopOverwrite(Tail(pairs), m))

\* a faulty variant of the loop of read_resp: every key is taken for a string
\* (from_utf8_lossy in place of from_utf8)
RECURSIVE RespLoopLossy(_, _)
RespLoopLossy(pairs, resp) ==
    IF pairs = <<>> THEN ROk(resp)
    ELSE LET k == Head(pairs)[1]
             v == Head(pairs)[2]
         IN  IF contains_key(resp, k) THEN RErr(DuplicatedKeyError(k))
             ELSE Bind(insert(resp, k, v), LAMBDA m : RespLoopLossy(Tail(pairs), m))

\* a faulty variant of the loop of read_resp: all keys are converted before
\* any is looked up
RespLoopTwoPass(pairs, resp) ==
    IF \E i \in 1..Len(pairs) : ~IsUtf8(pairs[i][1])
    THEN LET j == CHOOSE i \in 1..Len(pairs) :
                      ~IsUtf8(pairs[i][1]) /\ \A m \in 1..(i - 1) : IsUtf8(pairs[m][1])
         IN  RErr(BadBencodeString(pairs[j][1]))
    ELSE RespLoopLossy(pairs, resp)

\* read_resp, the loop over the pairs of the decoded dict
RECURSIVE RespLoop(_, _)
RespLoop(pairs, resp) ==
    IF pairs = <<>> THEN ROk(resp)
    ELSE LET k == Head(pairs)[1]
             v == Head(pairs)[2]
         IN  IF ~IsUtf8(k) THEN RErr(BadBencodeString(k))
             ELSE IF contains_key(resp, k) THEN RErr(DuplicatedKeyError(k))
             ELSE Bind(insert(resp, k, v), LAMBDA m : RespLoop(Tail(pairs), m))

\* What read_object returned: st is "ok" (Ok(Some(obj))), "none" (Ok(None))
\* or "err" (Err(why)).
ReadOk(o) == [st |-> "ok", obj |-> o, why |-> "none"]

ReadNone == [st |-> "none", obj |-> BBytes(<<>>), why |-> "none"]

ReadErr(why) == [st |-> "err", obj |-> BBytes(<<>>), why |-> why]

\* a faulty variant of the match of read_resp: a value that is no dict is
\* reported as a decode error
RespOfReadAsDecodeError(r) ==
    CASE r.st = "none" -> RPanic
      [] r.st = "err" -> RErr(BencodeDecodeError(r.why))
      [] r.st = "ok" /\ r.obj.t = "dict" -> RespLoop(r.obj.pairs, EmptyMap)
      [] r.st = "ok" /\ r.obj.t # "dict" -> RErr(BencodeDecodeError("malformed"))

\* read_resp, the match on what read_object returned
RespOfRead(r) ==
    CASE r.st = "none" -> RPanic
      [] r.st = "err" -> RErr(BencodeDecodeError(r.why))
      [] r.st = "ok" /\ r.obj.t = "dict" -> RespLoop(r.obj.pairs, EmptyMap)
      [] r.st = "ok" /\ r.obj.t # "dict" -> RErr(UnexpectedBencodeObject(r.obj))

(***************************************************************************)
(* impl ToBencode for Op.                                                  *)
(***************************************************************************)
NewOp(name, args) == [name |-> name, args |-> args]

\* the order of (&str, &str) tuples
PairLess(p, q) == StrLess(p[1], q[1]) \/ (p[1] = q[1] /\ StrLess(p[2], q[2]))

RECURSIVE InsertSorted(_, _)
InsertSorted(p, sorted) ==
    IF sorted = <<>> THEN <<p>>
    ELSE IF PairLess(p, Head(sorted)) THEN <<p>> \o sorted
    ELSE <<Head(sorted)>> \o InsertSorted(p, Tail(sorted))

\* a faulty variant of pairs.sort(): the pairs stay in insertion order
SortPairsNot(pairs) == pairs

\* pairs.sort()
RECURSIVE SortPairs(_)
SortPairs(pairs) ==
    IF pairs = <<>> THEN <<>>
    ELSE InsertSorted(pairs[Len(pairs)], SortPairs(SubSeq(pairs, 1, Len(pairs) - 1)))

\* a faulty variant of encode: the push of ("op", name) is left out
OpPairsNoOp(op) == op.args

\* the pairs of the dict: ("op", name), then the arguments
OpPairs(op) == <<<<OpKey, op.name>>>> \o op.args

EncOk(bytes) == [ok |-> TRUE, bytes |-> bytes, err |-> "none"]

EncErr(why) == [ok |-> FALSE, bytes |-> <<>>, err |-> why]

\* a faulty variant of emit_pair: a key equal to the one before it is let through
RECURSIVE EmitPairsLax(_, _, _)
EmitPairsLax(pairs, last, out) ==
    IF pairs = <<>> THEN EncOk(out)
    ELSE LET k == Head(pairs)[1]
             v == Head(pairs)[2]
         IN  IF last # <<>> /\ StrLess(k, last[1]) THEN EncErr("UnsortedKeys")
             ELSE EmitPairsLax(Tail(pairs), <<k>>, out \o EncStr(k) \o EncStr(v))

\* e.emit_pair for each pair in turn; the encoder refuses a key that is not
\* greater than the one before it.  last is <<>> or <<the key before>>.
RECURSIVE EmitPairs(_, _, _)
EmitPairs(pairs, last, out) ==
    IF pairs = <<>> THEN EncOk(out)
    ELSE LET k == Head(pairs)[1]
             v == Head(pairs)[2]
         IN  IF last # <<>> /\ ~StrLess(last[1], k) THEN EncErr("UnsortedKeys")
             ELSE EmitPairs(Tail(pairs), <<k>>, out \o EncStr(k) \o EncStr(v))

\* Op::encode under to_bencode: a dict, one level deep
to_bencode(op) ==
    IF 1 > MAX_DEPTH THEN EncErr("NestingTooDeep")
    ELSE LET body == EmitPairs(SortPairs(OpPairs(op)), <<>>, <<>>) IN
         IF body.ok THEN EncOk(<<ChD>> \o body.bytes \o <<ChE>>) ELSE body

(***************************************************************************)
(* The transport: one op() call on a NreplStream, and the peer.            *)
(***************************************************************************)
VARIABLES
    script,      \* the messages the server answers with, in send order
    inbound,     \* the bytes of the server's stream the client has not read
    closed,      \* the server has closed the connection
    broken,      \* the socket failed while the request was written
    written,     \* the bytes of the request the socket has accepted
    pc,          \* op(): "idle", "reading", "ok", "err" or "panic"
    br,          \* the bytes the BufReader of the running read_resp holds
    resps,       \* op()'s resps
    is_final,    \* op()'s is_final
    result,      \* what op() returned
    npushed,     \* how many Responses the call has pushed
    nlost,       \* how many received bytes were dropped with a BufReader
    cause,       \* how the last socket read ended: "data", "eof", "timeout"
    eop,         \* EncSpec: the Op being encoded
    eout,        \* EncSpec: its encoding
    eprev,       \* EncSpec: the encoding before the arguments were permuted
    robj,        \* RespSpec: what read_object returned
    rout,        \* RespSpec: what read_resp made of it
    rfinal,      \* RespSpec: is_final_resp of the Response
    wire,        \* ConcSpec: the unread stream, each byte with the call it answers
    pending,     \* ConcSpec: the calls whose request the server has not answered
    cpc,         \* ConcSpec: per call, where op() stands
    cbr,         \* ConcSpec: per call, what the BufReader of its read_resp holds
    cresps,      \* ConcSpec: per call, op()'s resps
    cfrom,       \* ConcSpec: per call and Response, the calls whose answer it was read from
    cserial      \* ConcSpec: per call, it ran alone and after no failed call

vars ==
    <<script, inbound, closed, broken, written, pc, br, resps, is_final,
      result, npushed, nlost, cause, eop, eout, eprev, robj, rout, rfinal,
      wire, pending, cpc, cbr, cresps, cfrom, cserial>>

tvars ==
    <<script, inbound, closed, broken, written, pc, br, resps, is_final,
      result, npushed, nlost, cause>>

evars == <<eop, eout, eprev>>

rvars == <<robj, rout, rfinal>>

cvars == <<wire, pending, cpc, cbr, cresps, cfrom, cserial>>

\* all sequences over S of length at most n
RECURSIVE SeqsUpTo(_, _)
SeqsUpTo(S, n) ==
    IF n = 0 THEN {<<>>}
    ELSE LET shorter == SeqsUpTo(S, n - 1) IN
         shorter \cup {Append(q, x) : q \in shorter, x \in S}

RECURSIVE Concat(_)
Concat(ss) == IF ss = <<>> THEN <<>> ELSE Head(ss) \o Concat(Tail(ss))

\* what the server may answer with: {"x": ""}, {"status": ""}, a value that
\* is no dict, and bytes that are no bencode
ServerMsgs ==
    { BDict(<<<<<<120>>, BBytes(<<>>)>>>>),
      BDict(<<<<StatusKey, BBytes(<<>>)>>>>),
      BInt(7),
      [t |-> "raw", raw |-> <<120>>] }

Scripts == SeqsUpTo(ServerMsgs, MaxMsgs)

ScriptBytes(ms) == Concat([i \in 1..Len(ms) |-> BEncode(ms[i])])

\* the requests of the transport: one that encodes, one with an argument
\* named "op"
RequestOps ==
    { NewOp(<<101>>, <<>>), NewOp(<<101>>, <<<<OpKey, <<120>>>>>>) }

OpOk(seq) == [tag |-> "Ok", seq |-> seq, err |-> NoError]

OpErr(e) == [tag |-> "Err", seq |-> <<>>, err |-> e]

OpPanic == [tag |-> "Panic", seq |-> <<>>, err |-> NoError]

OpNone == [tag |-> "None", seq |-> <<>>, err |-> NoError]

\* op()'s locals and result after a step: where it stands, resps, is_final,
\* and what it returned
Frame(where, rs, fin, res) ==
    [pc |-> where, resps |-> rs, is_final |-> fin, result |-> res]

\* a faulty variant of op(): the loop ends after the first Response, final or
\* not
OpLoopOneShot(rs, fin, r) ==
    CASE r.tag = "Panic" -> Frame("panic", <<>>, fin, OpPanic)
      [] r.tag = "Err" -> Frame("err", <<>>, fin, OpErr(r.err))
      [] r.tag = "Ok" ->
           Frame("ok", Append(rs, r.resp), is_final_resp(r.resp), OpOk(Append(rs, r.resp)))

\* a faulty variant of op(): the loop goes on after a final Response
OpLoopNoBreak(rs, fin, r) ==
    CASE r.tag = "Panic" -> Frame("panic", <<>>, fin, OpPanic)
      [] r.tag = "Err" -> Frame("err", <<>>, fin, OpErr(r.err))
      [] r.tag = "Ok" -> Frame("reading", Append(rs, r.resp), is_final_resp(r.resp), OpNone)

\* a faulty variant of op(): an error returns what was read so far
OpLoopPartial(rs, fin, r) ==
    CASE r.tag = "Panic" -> Frame("panic", <<>>, fin, OpPanic)
      [] r.tag = "Err" -> Frame("err", <<>>, fin, [OpErr(r.err) EXCEPT !.seq = rs])
      [] r.tag = "Ok" ->
           LET fin2 == is_final_resp(r.resp)
               rs2 == Append(rs, r.resp)
           IN  IF fin2 THEN Frame("ok", rs2, fin2, OpOk(rs2))
               ELSE Frame("reading", rs2, fin2, OpNone)

\* op(), one turn of the loop once read_resp has returned r: the ? on an
\* error (or the unwinding of a panic) drops resps; a Response is pushed and
\* ends the loop when it is final
OpLoop(rs, fin, r) ==
    CASE r.tag = "Panic" -> Frame("panic", <<>>, fin, OpPanic)
      [] r.tag = "Err" -> Frame("err", <<>>, fin, OpErr(r.err))
      [] r.tag = "Ok" ->
           LET fin2 == is_final_resp(r.resp)
               rs2 == Append(rs, r.resp)
           IN  IF fin2 THEN Frame("ok", rs2, fin2, OpOk(rs2))
               ELSE Frame("reading", rs2, fin2, OpNone)

\* what read_object returns when the stream ends: Ok(None) before the first
\* byte of a value; inside a value, Ok(None) or an error
ReadObjectAtEof(b) == IF b = <<>> THEN {ReadNone} ELSE {ReadNone, ReadErr("eof")}

\* the state after read_resp returned r, the BufReader holding b of which the
\* decoder used the first n bytes: the reader is dropped with what it holds
Returned(r, b, n) ==
    \E f \in {OpLoop(resps, is_final, r)} :
        /\ pc' = f.pc
        /\ resps' = f.resps
        /\ is_final' = f.is_final
        /\ result' = f.result
        /\ npushed' = IF r.tag = "Ok" THEN npushed + 1 ELSE npushed
        /\ nlost' = nlost + (Len(b) - n)
        /\ br' = <<>>

TInit ==
    /\ script \in Scripts
    /\ inbound = ScriptBytes(script)
    /\ closed = FALSE
    /\ broken = FALSE
    /\ written = <<>>
    /\ pc = "idle"
    /\ br = <<>>
    /\ resps = <<>>
    /\ is_final = FALSE
    /\ result = OpNone
    /\ npushed = 0
    /\ nlost = 0
    /\ cause = "none"

EIdle ==
    /\ eop = NewOp(<<>>, <<>>)
    /\ eout = EncErr("unset")
    /\ eprev = EncErr("unset")

RIdle ==
    /\ robj = ReadNone
    /\ rout = RUnset
    /\ rfinal = FALSE

\* the op() calls made on one NreplStream
Calls == {1, 2}

CIdle ==
    /\ wire = <<>>
    /\ pending = <<>>
    /\ cpc = [c \in Calls |-> "idle"]
    /\ cbr = [c \in Calls |-> <<>>]
    /\ cresps = [c \in Calls |-> <<>>]
    /\ cfrom = [c \in Calls |-> <<>>]
    /\ cserial = [c \in Calls |-> FALSE]

Init == TInit /\ EIdle /\ RIdle /\ CIdle

\* a faulty variant of send_op: what the encoder emitted before it failed is
\* written to the socket
SendOpEager ==
    /\ pc = "idle"
    /\ \E op \in RequestOps :
         LET enc == to_bencode(op) IN
         IF ~enc.ok THEN
             /\ pc' = "err"
             /\ result' = OpErr(BencodeEncodeError(enc.err))
             /\ written' = <<ChD>>
             /\ UNCHANGED <<broken, inbound>>
         ELSE
             /\ written' = enc.bytes
             /\ pc' = "reading"
             /\ result' = OpNone
             /\ UNCHANGED <<broken, inbound>>
    /\ UNCHANGED <<script, closed, br, resps, is_final, npushed, nlost, cause>>
    /\ UNCHANGED <<evars, rvars, cvars>>

\* op() up to the first read: send_op encodes the request and writes it
\* through a BufWriter, which is flushed when it is dropped, an error of the
\* flush ignored.  n is how many bytes the socket accepts before it fails.
SendOp ==
    /\ pc = "idle"
    /\ \E op \in RequestOps :
         LET enc == to_bencode(op) IN
         IF ~enc.ok THEN
             /\ pc' = "err"
             /\ result' = OpErr(BencodeEncodeError(enc.err))
             /\ UNCHANGED <<written, broken, inbound>>
         ELSE
             /\ Len(enc.bytes) < BufCapacity
             /\ \E n \in 0..Len(enc.bytes) :
                  /\ written' = Take(enc.bytes, n)
                  /\ broken' = (n < Len(enc.bytes))
                  /\ inbound' = IF n < Len(enc.bytes) THEN <<>> ELSE inbound
             /\ pc' = "reading"
             /\ result' = OpNone
    /\ UNCHANGED <<script, closed, br, resps, is_final, npushed, nlost, cause>>
    /\ UNCHANGED <<evars, rvars, cvars>>

\* the server closes the connection having sent no more than was read
ServerClose ==
    /\ pc = "reading"
    /\ ~closed
    /\ ~broken
    /\ closed' = TRUE
    /\ inbound' = <<>>
    /\ UNCHANGED <<script, broken, written, pc, br, resps, is_final, result, npushed, nlost, cause>>
    /\ UNCHANGED <<evars, rvars, cvars>>

\* read_resp: a read of the socket hands the BufReader the n bytes that have
\* arrived, and the decoder goes on until it has a value or needs more
SockRead ==
    /\ pc = "reading"
    /\ \E n \in 1..Min(Len(inbound), BufCapacity) :
         \E b \in {br \o Take(inbound, n)} :
           \E p \in {ReadObject(b)} :
             /\ inbound' = Drop(inbound, n)
             /\ cause' = "data"
             /\ CASE p.st = "more" ->
                       /\ br' = b
                       /\ UNCHANGED <<pc, resps, is_final, result, npushed, nlost>>
                  [] p.st = "bad" -> Returned(RespOfRead(ReadErr("malformed")), b, Len(b))
                  [] p.st = "ok" ->
                       \E r \in {RespOfRead(ReadOk(p.val))} : Returned(r, b, p.next - 1)
    /\ UNCHANGED <<script, closed, broken, written>>
    /\ UNCHANGED <<evars, rvars, cvars>>

\* read_resp: the read finds the stream at its end
SockReadEof ==
    /\ pc = "reading"
    /\ inbound = <<>>
    /\ closed
    /\ cause' = "eof"
    /\ \E o \in ReadObjectAtEof(br) : Returned(RespOfRead(o), br, Len(br))
    /\ UNCHANGED <<script, inbound, closed, broken, written>>
    /\ UNCHANGED <<evars, rvars, cvars>>

\* a faulty variant of SockReadTimeout: no read timeout is set on the socket
SockReadNoTimeout == FALSE /\ UNCHANGED vars

\* read_resp: nothing arrives within the read timeout
SockReadTimeout ==
    /\ pc = "reading"
    /\ ~closed
    /\ cause' = "timeout"
    /\ Returned(RespOfRead(ReadErr("io")), br, Len(br))
    /\ UNCHANGED <<script, inbound, closed, broken, written>>
    /\ UNCHANGED <<evars, rvars, cvars>>

Next ==
    \/ SendOp
    \/ ServerClose
    \/ SockRead
    \/ SockReadEof
    \/ SockReadTimeout

Spec == Init /\ [][Next]_vars

\* a blocking read of the socket returns: with bytes, with the end of the
\* stream, or with the read timeout set by connect_timeout
ClientRead == SockRead \/ SockReadEof \/ SockReadTimeout

FairSpec == Spec /\ WF_vars(ClientRead)

(***************************************************************************)
(* Op::encode as a function of its input: an Op is encoded, then encoded   *)
(* again with two neighbouring arguments swapped.                          *)
(***************************************************************************)
TIdle ==
    /\ script = <<>>
    /\ inbound = <<>>
    /\ closed = FALSE
    /\ broken = FALSE
    /\ written = <<>>
    /\ pc = "idle"
    /\ br = <<>>
    /\ resps = <<>>
    /\ is_final = FALSE
    /\ result = OpNone
    /\ npushed = 0
    /\ nlost = 0
    /\ cause = "none"

\* operation names: "e", "op"
OpNames == { <<101>>, OpKey }

\* arguments: the names "a", "op", "y", "z" with the values "1", "2"
ArgPairs ==
    { <<k, v>> : k \in { <<97>>, OpKey, <<121>>, <<122>> }, v \in { <<49>>, <<50>> } }

Ops == { NewOp(n, a) : n \in OpNames, a \in SeqsUpTo(ArgPairs, MaxArgs) }

SwapArgs(op, i) ==
    [op EXCEPT !.args = [j \in 1..Len(op.args) |->
        IF j = i THEN op.args[i + 1] ELSE IF j = i + 1 THEN op.args[i] ELSE op.args[j]]]

EInit ==
    /\ eop \in Ops
    /\ eout = EncErr("unset")
    /\ eprev = EncErr("unset")
    /\ TIdle
    /\ RIdle
    /\ CIdle

Encode ==
    /\ eout.err = "unset"
    /\ eout' = to_bencode(eop)
    /\ UNCHANGED <<eop, eprev>>
    /\ UNCHANGED <<tvars, rvars, cvars>>

Permute ==
    /\ eout.err # "unset"
    /\ \E i \in 1..(Len(eop.args) - 1) :
         /\ eop' = SwapArgs(eop, i)
         /\ eprev' = eout
         /\ eout' = to_bencode(eop')
    /\ UNCHANGED <<tvars, rvars, cvars>>

ENext == Encode \/ Permute

EncSpec == EInit /\ [][ENext]_vars

(***************************************************************************)
(* read_resp as a function of what read_object returned.                   *)
(***************************************************************************)
\* keys: "status", "foo", "é", and a byte that is no UTF-8
RespKeys == { StatusKey, <<102, 111, 111>>, <<195, 169>>, <<255>> }

\* values: "", 7, and a dict that itself has the key "status"
RespVals == { BBytes(<<>>), BInt(7), BDict(<<<<StatusKey, BBytes(<<>>)>>>>) }

RespPairs == { <<k, v>> : k \in RespKeys, v \in RespVals }

ReadResults ==
    { ReadOk(BDict(ps)) : ps \in SeqsUpTo(RespPairs, MaxPairs) }
        \cup { ReadOk(o) : o \in { BBytes(StatusKey), BInt(7), BList(<<BBytes(StatusKey)>>) } }
        \cup { ReadNone, ReadErr("malformed") }

RInit ==
    /\ robj \in ReadResults
    /\ rout = RUnset
    /\ rfinal = FALSE
    /\ TIdle
    /\ EIdle
    /\ CIdle

ReadResp ==
    /\ rout.tag = "Unset"
    /\ rout' = RespOfRead(robj)
    /\ rfinal' = (rout'.tag = "Ok" /\ is_final_resp(rout'.resp))
    /\ UNCHANGED robj
    /\ UNCHANGED <<tvars, evars, cvars>>

RNext == ReadResp

RespSpec == RInit /\ [][RNext]_vars

(***************************************************************************)
(* Several op() calls on one NreplStream.  op() takes &self and every      *)
(* read_resp has a BufReader of its own on the shared TcpStream, so calls   *)
(* of different threads read the same stream.  The server answers the       *)
(* requests in the order it received them, each with non-terminal messages  *)
(* and one terminal message; every byte of the stream carries the call it   *)
(* answers.                                                                 *)
(***************************************************************************)
\* what the server answers a request with
Replies ==
    { <<BDict(<<<<StatusKey, BBytes(<<>>)>>>>)>>,
      <<BDict(<<<<<<120>>, BBytes(<<>>)>>>>), BDict(<<<<StatusKey, BBytes(<<>>)>>>>)>> }

\* the bytes, each with the call c they answer
Tagged(bytes, c) == [i \in 1..Len(bytes) |-> <<bytes[i], c>>]

\* the bytes of a tagged stream
Untagged(w) == [i \in 1..Len(w) |-> w[i][1]]

\* the calls that the first n bytes of a tagged stream answer
Owners(w, n) == {w[i][2] : i \in 1..n}

\* no other call is reading and no call has failed
Alone(c) == \A d \in Calls \ {c} : cpc[d] \in {"idle", "ok"}

\* the calls are numbered in the order they are made
MayStart(c) == \A d \in Calls : d < c => cpc[d] # "idle"

\* op() of call c: send_op writes the request, which the server receives
CStart(c) ==
    /\ cpc[c] = "idle"
    /\ MayStart(c)
    /\ to_bencode(NewOp(<<101>>, <<>>)).ok
    /\ cpc' = [cpc EXCEPT ![c] = "reading"]
    /\ pending' = Append(pending, c)
    /\ cserial' = [d \in Calls |->
                      IF d = c THEN Alone(c)
                      ELSE IF cpc[d] = "reading" THEN FALSE
                      ELSE cserial[d]]
    /\ UNCHANGED <<wire, cbr, cresps, cfrom>>
    /\ UNCHANGED <<tvars, evars, rvars>>

\* the server answers the request it received first
ServerReply ==
    /\ pending # <<>>
    /\ \E ms \in Replies :
         wire' = wire \o Tagged(ScriptBytes(ms), Head(pending))
    /\ pending' = Tail(pending)
    /\ UNCHANGED <<cpc, cbr, cresps, cfrom, cserial>>
    /\ UNCHANGED <<tvars, evars, rvars>>

\* call c after its read_resp returned r, of which the decoder used the
\* first n bytes of b: the reader is dropped with what it holds
CReturned(c, r, b, n) ==
    \E f \in {OpLoop(cresps[c], FALSE, r)} :
        /\ cpc' = [cpc EXCEPT ![c] = f.pc]
        /\ cresps' = [cresps EXCEPT ![c] = f.resps]
        /\ cfrom' = [cfrom EXCEPT ![c] =
                        IF r.tag = "Ok" THEN Append(cfrom[c], Owners(b, n)) ELSE <<>>]
        /\ cbr' = [cbr EXCEPT ![c] = <<>>]

\* read_resp of call c: a read of the socket hands its BufReader the n bytes
\* that have arrived
CRead(c) ==
    /\ cpc[c] = "reading"
    /\ \E n \in 1..Min(Len(wire), BufCapacity) :
         \E b \in {cbr[c] \o Take(wire, n)} :
           \E p \in {ReadObject(Untagged(b))} :
             /\ wire' = Drop(wire, n)
             /\ CASE p.st = "more" ->
                       /\ cbr' = [cbr EXCEPT ![c] = b]
                       /\ UNCHANGED <<cpc, cresps, cfrom>>
                  [] p.st = "bad" ->
                       CReturned(c, RespOfRead(ReadErr("malformed")), b, Len(b))
                  [] p.st = "ok" ->
                       \E r \in {RespOfRead(ReadOk(p.val))} : CReturned(c, r, b, p.next - 1)
    /\ UNCHANGED <<pending, cserial>>
    /\ UNCHANGED <<tvars, evars, rvars>>

\* read_resp of call c: the read times out
CReadTimeout(c) ==
    /\ cpc[c] = "reading"
    /\ CReturned(c, RespOfRead(ReadErr("io")), cbr[c], Len(cbr[c]))
    /\ UNCHANGED <<wire, pending, cserial>>
    /\ UNCHANGED <<tvars, evars, rvars>>

CInit == CIdle /\ TIdle /\ EIdle /\ RIdle

CNext ==
    \/ \E c \in Calls : CStart(c)
    \/ ServerReply
    \/ \E c \in Calls : CRead(c)
    \/ \E c \in Calls : CReadTimeout(c)

ConcSpec == CInit /\ [][CNext]_vars

(***************************************************************************)
(* The claims.                                                             *)
(***************************************************************************)
HasKey(pairs, k) == \E i \in 1..Len(pairs) : pairs[i][1] = k

\* some key of the pairs occurs twice
HasRepeat(pairs) ==
    \E i, j \in 1..Len(pairs) : i < j /\ pairs[i][1] = pairs[j][1]

\* the first position whose key occurred before it
FirstRepeat(pairs) ==
    CHOOSE j \in 1..Len(pairs) :
        /\ \E i \in 1..(j - 1) : pairs[i][1] = pairs[j][1]
        /\ \A m \in 1..(j - 1) : \A i \in 1..(m - 1) : pairs[i][1] # pairs[m][1]

\* a message of the server that is a dict with the key "status"
IsTerminalMsg(o) == o.t = "dict" /\ HasKey(o.pairs, StatusKey)

\* a message of the server that is a dict of distinct UTF-8 keys
IsResponseMsg(o) ==
    /\ o.t = "dict"
    /\ ~HasRepeat(o.pairs)
    /\ \A i \in 1..Len(o.pairs) : IsUtf8(o.pairs[i][1])

\* the Response a message of the server stands for
WireResp(o) ==
    [k \in {o.pairs[i][1] : i \in 1..Len(o.pairs)} |->
        o.pairs[CHOOSE i \in 1..Len(o.pairs) : o.pairs[i][1] = k][2]]

\* the pairs of the dict that the bytes are
EmittedPairs(bytes) == ReadObject(bytes).val.pairs

IsOneDict(bytes) ==
    LET p == ReadObject(bytes) IN
    p.st = "ok" /\ p.next = Len(bytes) + 1 /\ p.val.t = "dict"

Finished == pc \in {"ok", "err", "panic"}

\* C1: a successful op() returns exactly the messages the server sent, in
\* send order, up to and including the first one with the key "status",
\* however the bytes are split over the socket reads.
C1_ExactSequence ==
    pc = "ok" =>
        \E n \in 1..Len(script) :
            /\ IsTerminalMsg(script[n])
            /\ \A i \in 1..(n - 1) : ~IsTerminalMsg(script[i])
            /\ Len(result.seq) = n
            /\ \A i \in 1..n :
                 script[i].t = "dict" /\ result.seq[i] = WireResp(script[i])

\* C2: op() returns Ok exactly when it has left the loop on a final
\* Response: the returned sequence is non-empty, its last Response has the
\* key "status" and no earlier one has; while op() is still reading, no
\* Response it holds has the key "status".
C2_TerminalLast ==
    /\ (result.tag = "Ok") <=> (pc = "ok")
    /\ pc = "ok" =>
         /\ result.seq = resps
         /\ Len(result.seq) >= 1
         /\ StatusKey \in DOMAIN result.seq[Len(result.seq)]
         /\ \A i \in 1..(Len(result.seq) - 1) : StatusKey \notin DOMAIN result.seq[i]
    /\ pc = "reading" =>
         \A i \in 1..Len(resps) : StatusKey \notin DOMAIN resps[i]

C2_Witness == pc = "ok" /\ Len(result.seq) >= 2

\* C3: is_final_resp is true exactly of a Response made from a dict that
\* has the key "status", whatever its value and the other keys; the two
\* cases of final_resp_test are among them.
C3_FinalIffStatus ==
    /\ rout.tag = "Ok" => (rfinal <=> HasKey(robj.obj.pairs, StatusKey))
    /\ is_final_resp(insert(EmptyMap, StatusKey, BBytes(<<>>)))
    /\ ~is_final_resp(insert(EmptyMap, <<102, 111, 111>>, BBytes(<<>>)))

C3_Witness ==
    /\ rout.tag = "Ok"
    /\ rfinal
    /\ Len(robj.obj.pairs) >= 2
    /\ rout.resp[StatusKey] = BBytes(<<>>)

\* C4: when the server sent only non-terminal messages and the call ended
\* on the end of the stream or on a read timeout, op() returned
\* Err(ConnectionLost).
C4_ConnectionLost ==
    ( /\ Finished
      /\ ~broken
      /\ cause \in {"eof", "timeout"}
      /\ \A i \in 1..Len(script) : IsResponseMsg(script[i]) /\ ~IsTerminalMsg(script[i]) )
    => (result.tag = "Err" /\ result.err.kind = "ConnectionLost")

C6_NoPanic == pc # "panic"

\* C7: when op() fails after Responses were pushed, the caller gets the
\* error and none of them.
C7_ErrorOnly ==
    (pc = "err" /\ npushed >= 1) =>
        (result.tag = "Err" /\ result.seq = <<>> /\ resps = <<>>)

C7_Witness == pc = "err" /\ npushed >= 2

\* C8, as claimed: a dict in which a key occurs twice is refused with
\* DuplicatedKeyError carrying a key that occurs twice.
C8_DuplicatedKeyError ==
    (rout.tag # "Unset" /\ robj.st = "ok" /\ robj.obj.t = "dict" /\ HasRepeat(robj.obj.pairs))
    => /\ rout.tag = "Err"
       /\ rout.err.kind = "DuplicatedKeyError"
       /\ \E i, j \in 1..Len(robj.obj.pairs) :
            i < j /\ robj.obj.pairs[i][1] = rout.err.key /\ robj.obj.pairs[j][1] = rout.err.key

\* C8, amended: a dict in which a key occurs twice is never made a
\* Response; it is refused with DuplicatedKeyError carrying the first key
\* to repeat when every key up to that repetition is valid UTF-8, and with
\* BadBencodeString otherwise.
C8_DuplicateRejected ==
    (rout.tag # "Unset" /\ robj.st = "ok" /\ robj.obj.t = "dict" /\ HasRepeat(robj.obj.pairs))
    => LET ps == robj.obj.pairs
           j == FirstRepeat(ps)
       IN  /\ rout.tag = "Err"
           /\ IF \A i \in 1..j : IsUtf8(ps[i][1])
              THEN rout.err.kind = "DuplicatedKeyError" /\ rout.err.key = ps[j][1]
              ELSE rout.err.kind = "BadBencodeString"

C8_Witness ==
    /\ rout.tag = "Err"
    /\ rout.err.kind = "DuplicatedKeyError"
    /\ Len(robj.obj.pairs) = 2
    /\ robj.obj.pairs[1][1] = StatusKey
    /\ robj.obj.pairs[2][1] = StatusKey
    /\ robj.obj.pairs[1][2] # robj.obj.pairs[2][2]

\* C9: an Op and the same Op with its arguments in another order encode to
\* the same result, and the keys of an emitted dict are strictly ascending
\* in byte order, "op" among them.
C9_OrderIndependent ==
    /\ eprev.err # "unset" => eout = eprev
    /\ eout.ok =>
         /\ IsOneDict(eout.bytes)
         /\ LET ps == EmittedPairs(eout.bytes) IN
            /\ HasKey(ps, OpKey)
            /\ \A i \in 1..(Len(ps) - 1) : StrLess(ps[i][1], ps[i + 1][1])

C9_Witness ==
    /\ eprev.ok
    /\ eout.ok
    /\ Len(eop.args) = 2
    /\ StrLess(eop.args[2][1], OpKey)
    /\ StrLess(OpKey, eop.args[1][1])

\* C10: the dict of an Op that encodes has the keys "op" and the argument
\* names, each once, and "op" is mapped to the name of the Op.
C10_KeySet ==
    eout.ok =>
        /\ IsOneDict(eout.bytes)
        /\ LET ps == EmittedPairs(eout.bytes) IN
           /\ {ps[i][1] : i \in 1..Len(ps)}
                = {OpKey} \cup {eop.args[i][1] : i \in 1..Len(eop.args)}
           /\ \A i, j \in 1..Len(ps) : ps[i][1] = ps[j][1] => i = j
           /\ \A i \in 1..Len(ps) : ps[i][1] = OpKey => ps[i][2] = BBytes(eop.name)

C10_Witness == eout.ok /\ Len(eop.args) = 2 /\ eop.name = OpKey

\* read_resp on exactly these bytes: the decoder reads one value that ends
\* where the bytes end, and read_resp makes a Response of it
DecodeAsResp(bytes) ==
    LET p == ReadObject(bytes) IN
    IF p.st = "ok" /\ p.next = Len(bytes) + 1 THEN RespOfRead(ReadOk(p.val))
    ELSE RErr(BencodeDecodeError("malformed"))

\* the encoded Op, read back, is the map of "op" and the arguments
RoundTrips ==
    /\ eout.ok
    /\ LET r == DecodeAsResp(eout.bytes) IN
       /\ r.tag = "Ok"
       /\ DOMAIN r.resp = {OpKey} \cup {eop.args[i][1] : i \in 1..Len(eop.args)}
       /\ r.resp[OpKey] = BBytes(eop.name)
       /\ \A i \in 1..Len(eop.args) : r.resp[eop.args[i][1]] = BBytes(eop.args[i][2])

\* no argument is named "op" and no argument name occurs twice
DistinctNames(op) ==
    /\ \A i \in 1..Len(op.args) : op.args[i][1] # OpKey
    /\ \A i, j \in 1..Len(op.args) : op.args[i][1] = op.args[j][1] => i = j

\* C11, as claimed: every Op encodes to bytes that read_resp decodes to the
\* map with the keys "op" and the argument names, each value the byte
\* string of the argument value.
C11_RoundTrip == eout.err # "unset" => RoundTrips

\* C11, amended: an Op whose argument names are distinct and are not "op"
\* encodes to bytes that read_resp decodes to the map of "op" and the
\* arguments; any other Op does not encode, to_bencode fails with
\* UnsortedKeys and there are no bytes to decode.
C11_RoundTripDistinct ==
    eout.err # "unset" =>
        IF DistinctNames(eop) THEN RoundTrips
        ELSE ~eout.ok /\ eout.err = "UnsortedKeys" /\ eout.bytes = <<>>

C11_Witness ==
    /\ RoundTrips
    /\ Len(eop.args) = 2
    /\ eop.args[1][2] # eop.args[2][2]
    /\ StrLess(eop.args[2][1], eop.args[1][1])

\* C12: when the encoding of the request fails, op() returns the encode
\* error, nothing was written to the socket and nothing was read from it.
C12_EncodeFailureFrame ==
    (result.tag = "Err" /\ result.err.kind = "BencodeEncodeError") =>
        /\ pc = "err"
        /\ result.seq = <<>>
        /\ written = <<>>
        /\ ~broken
        /\ inbound = ScriptBytes(script)
        /\ br = <<>>
        /\ cause = "none"
        /\ npushed = 0
        /\ nlost = 0

C12_Witness ==
    /\ pc = "err"
    /\ result.err = BencodeEncodeError("UnsortedKeys")
    /\ Len(inbound) > 0

\* C13: as long as every read_resp call of op() has succeeded, no byte that
\* was read from the socket has been dropped with a BufReader: what the
\* server sent after a value is still there for the next call.
C13_NothingDropped == pc \in {"reading", "ok"} => nlost = 0

\* C14: when the socket did not accept the whole encoded request, op()
\* returned an I/O error and read nothing.
C14_WriteFailureReturns ==
    broken => (pc = "err" /\ result.err.kind = "IOError" /\ cause = "none")

\* the Responses op() may hold when read_resp returns
HeldResps ==
    { <<>>, <<insert(EmptyMap, <<102, 111, 111>>, BBytes(<<>>))>> }

\* C15: when the value read is no dict, read_resp fails with
\* UnexpectedBencodeObject carrying that value, and op() returns that error
\* and no Response, whatever it had read before.
C15_NonDictRejected ==
    (rout.tag # "Unset" /\ robj.st = "ok" /\ robj.obj.t # "dict") =>
        /\ rout = RErr(UnexpectedBencodeObject(robj.obj))
        /\ \A rs \in HeldResps :
             OpLoop(rs, FALSE, rout)
                = Frame("err", <<>>, FALSE, OpErr(UnexpectedBencodeObject(robj.obj)))

C15_Witness ==
    /\ rout.tag = "Err"
    /\ rout.err.kind = "UnexpectedBencodeObject"
    /\ robj.obj.t = "list"
    /\ rout.err.obj = robj.obj

\* some key of the pairs is no valid UTF-8
HasInvalid(pairs) == \E i \in 1..Len(pairs) : ~IsUtf8(pairs[i][1])

\* the first position whose key is no valid UTF-8
FirstInvalid(pairs) ==
    CHOOSE j \in 1..Len(pairs) :
        ~IsUtf8(pairs[j][1]) /\ \A m \in 1..(j - 1) : IsUtf8(pairs[m][1])

\* read_resp made of the pairs the map with one entry per pair, the values
\* as they were
IsMapOf(resp, pairs) ==
    /\ DOMAIN resp = {pairs[i][1] : i \in 1..Len(pairs)}
    /\ Cardinality(DOMAIN resp) = Len(pairs)
    /\ \A i \in 1..Len(pairs) : resp[pairs[i][1]] = pairs[i][2]

\* C16, as claimed: a dict with a key that is no valid UTF-8 is refused
\* with BadBencodeString; a dict of valid, distinct keys becomes the
\* Response with one entry per pair and the values unchanged.
C16_BadKeyOrResponse ==
    (rout.tag # "Unset" /\ robj.st = "ok" /\ robj.obj.t = "dict") =>
        LET ps == robj.obj.pairs IN
        /\ HasInvalid(ps) => (rout.tag = "Err" /\ rout.err.kind = "BadBencodeString")
        /\ (~HasInvalid(ps) /\ ~HasRepeat(ps)) =>
              (rout.tag = "Ok" /\ IsMapOf(rout.resp, ps))

\* C16, amended: a dict with a key that is no valid UTF-8 never becomes a
\* Response; it is refused with BadBencodeString carrying the bytes of the
\* first such key when no key repeats ahead of it, and with
\* DuplicatedKeyError otherwise.  A dict of valid, distinct keys becomes the
\* Response with one entry per pair and the values unchanged.
C16_BadKeyRejected ==
    (rout.tag # "Unset" /\ robj.st = "ok" /\ robj.obj.t = "dict") =>
        LET ps == robj.obj.pairs IN
        /\ HasInvalid(ps) =>
              LET j == FirstInvalid(ps) IN
              /\ rout.tag = "Err"
              /\ IF HasRepeat(SubSeq(ps, 1, j - 1))
                 THEN rout.err.kind = "DuplicatedKeyError"
                 ELSE rout.err = BadBencodeString(ps[j][1])
        /\ (~HasInvalid(ps) /\ ~HasRepeat(ps)) =>
              (rout.tag = "Ok" /\ IsMapOf(rout.resp, ps))

C16_Witness ==
    /\ rout.tag = "Err"
    /\ rout.err.kind = "BadBencodeString"
    /\ Len(robj.obj.pairs) = 3
    /\ IsUtf8(robj.obj.pairs[1][1])
    /\ robj.obj.pairs[1][1] # robj.obj.pairs[2][1]
    /\ IsUtf8(robj.obj.pairs[2][1])
    /\ robj.obj.pairs[2][1] = <<195, 169>>

\* the pair at position j has a key that is no valid UTF-8 or that occurred
\* before it
Offends(pairs, j) ==
    \/ ~IsUtf8(pairs[j][1])
    \/ \E i \in 1..(j - 1) : pairs[i][1] = pairs[j][1]

\* the first position that offends
FirstOffending(pairs) ==
    CHOOSE j \in 1..Len(pairs) :
        Offends(pairs, j) /\ \A m \in 1..(j - 1) : ~Offends(pairs, m)

\* C17: a dict with a key that is no valid UTF-8 and a key that repeats is
\* refused for its first offending pair in wire order, and the error
\* carries the key of that pair: BadBencodeString when that key is no valid
\* UTF-8, DuplicatedKeyError when it is a valid key that occurred before.
C17_FirstDefect ==
    ( /\ rout.tag # "Unset"
      /\ robj.st = "ok"
      /\ robj.obj.t = "dict"
      /\ HasInvalid(robj.obj.pairs)
      /\ HasRepeat(robj.obj.pairs) )
    => LET ps == robj.obj.pairs
           j == FirstOffending(ps)
       IN  rout = IF IsUtf8(ps[j][1]) THEN RErr(DuplicatedKeyError(ps[j][1]))
                  ELSE RErr(BadBencodeString(ps[j][1]))

C17_Witness ==
    /\ rout.tag = "Err"
    /\ rout.err = DuplicatedKeyError(StatusKey)
    /\ Len(robj.obj.pairs) = 3
    /\ robj.obj.pairs[2][1] = StatusKey
    /\ ~IsUtf8(robj.obj.pairs[3][1])

\* C18: the request is written only by the one send of the call, and once
\* the write has failed or op() has returned an error, nothing more is
\* written to the socket or read from it.
C18_NoRetry ==
    [][ /\ (written' # written => pc = "idle")
        /\ ((broken \/ pc = "err") =>
              (written' = written /\ inbound' = inbound /\ br' = br /\ cause' = cause))
      ]_vars

=============================================================================
